---- MODULE Spec2Model ----
(***************************************************************************)
(* A model of the tts-data-pipeline acquisition core:                      *)
(*   - the bounded task pools of crawler/metadata.py and                   *)
(*     crawler/__main__.py (an asyncio.Semaphore around every unit, the    *)
(*     results consumed through asyncio.as_completed);                     *)
(*   - one per-book download unit of crawler/download.py with its file     *)
(*     fetches and its cancellation handler, alone (SpecBook) and inside   *)
(*     the download pool (SpecSlot);                                       *)
(*   - convert_duration, the per-book record files and their               *)
(*     consolidation into the ledger (SpecDuration, SpecRecords,           *)
(*     SpecConsolidate);                                                   *)
(*   - one run of the audio qualification of pre_processing/audio.py       *)
(*     (SpecAudio, SpecAudioLong) and two calls of its grouping step       *)
(*     (SpecGroup).                                                        *)
(* Every specification leaves the parts it does not run idle.              *)
(***************************************************************************)
EXTENDS Integers, Sequences, FiniteSets, TLC

\* ------------------------------------------------------------------ bounds
\* Largest number of units submitted to a pool.
MaxUnits == 3
\* Largest configured concurrency cap (FETCH_METADATA_LIMIT, DOWNLOAD_BOOK_LIMIT).
MaxLimit == 2
\* Largest number of audio parts of one book.
MaxParts == 2
\* Largest number of parts of the one book of a long-book run.
MaxLongParts == 10
\* Largest number of colon-separated components of a duration string.
MaxComponents == 3
\* Largest number of per-book record files in the metadata directory.
MaxRecords == 3
\* Largest number of runs of the metadata pipeline on one input list.
MaxRuns == 2
\* Largest number of books in the input list of those runs.
MaxInputs == 2

VARIABLES
  \* ---- bounded task pool
  pool,        \* "metadata" (fetch_book_metadata) or "download" (main)
  limit,       \* the value the semaphore was constructed with
  nUnits,      \* number of submitted units (len(metadata_tasks) / len(download_tasks))
  semaphore,   \* free slots: asyncio.Semaphore._value
  pc,          \* per unit: where its coroutine is suspended
  result,      \* per unit: how its task ended
  started,     \* per unit: how often its body began to run
  saved,       \* units whose per-book record file was written
  unreached,   \* ghost: units whose page fetch did not reach a page
  doneQ,       \* as_completed's queue of finished tasks, in completion order
  delivered,   \* number of "await task" of the consuming loop that got a task
  consumer,    \* the consuming loop: running / finished / aborted / cancelled
  cancelling,  \* "no", "external" (user interrupt) or "teardown" (asyncio.run ends)
  \* ---- one per-book download unit
  bPhase,      \* idle / resolving / fetching / done
  bExt,        \* extension of the last segment of text_url
  bK,          \* number of audio part URLs the link resolution returned
  fpc,         \* per fetch (0: text, i >= 1: audio part i): position in download_by_cli
  fret,        \* per fetch: the value download_by_cli returned
  frc,         \* per fetch: exit status of its wget subprocess (-1: not run)
  probes,      \* per fetch: number of HEAD probes issued
  audioDir,    \* whether <audio_save_path>/<name_book> exists
  audioFiles,  \* part files present in that directory
  textFiles,   \* extensions e for which <text_save_path>/<name_book><e> exists
  bResult,     \* what download_full_book gave its caller
  bCancelled,  \* "no", or the phase in which the unit was cancelled
  \* ---- one audio qualification run
  aPc,         \* position in process_audio_files
  layout,      \* how the raw root was filled: "flat" or "downloader"
  disk,        \* set of file paths (sequences of characters)
  rate,        \* sample rate stored in each raw part, by file name
  ledgerFile,  \* the ledger file: sequence of rows
  ledgerWrites,\* number of times the ledger file was written during the run
  ledgerReads, \* number of times the ledger file was read during the run
  metadata_df, \* the in-memory ledger
  qualified_dir, \* the qualified root as a path string
  audiobooks,  \* groups still to be processed (result of group_audiobook)
  processed,   \* ghost: groups processed, with the branch taken and what succeeded
  convertCalls,\* ghost: raw paths handed to convert_mp3_to_wav
  combineCalls,\* ghost: (output path, input list) handed to combine_wav_files
  \* ---- one call of convert_duration
  dPc,         \* idle / call / done
  dComps,      \* ghost: the components the argument was written from
  time_str,    \* the argument: a string, or a value that is not a string
  unit,        \* the unit argument
  dResult,     \* the returned value
  \* ---- per-book record files and their consolidation
  cPc,         \* idle / extract / glob / loop / done
  mBooks,      \* the input list: audiobook page URLs
  mOk,         \* per input: whether the extractor produces a record for it
  mRun,        \* number of the current run of the metadata pipeline
  mPending,    \* inputs whose unit has not finished in the current run
  recordFiles, \* METADATA_SAVE_PATH/*.json: file name -> content
  cTodo,       \* record files the consolidation loop has not read yet
  all_metadata,\* the list the consolidation loop appends to
  csvFile,     \* METADATA_BOOK_PATH: sequence of rows
  \* ---- two calls of group_audiobook in a row
  gPc,         \* idle / first / second / done
  firstGroups, \* the groups the first call returned
  secondGroups,\* the groups the second call returned
  secondMoved  \* the raw-root entries the second call relocated

poolVars == <<pool, limit, nUnits, semaphore, pc, result, started, saved, unreached, doneQ,
              delivered, consumer, cancelling>>
bookVars == <<bPhase, bExt, bK, fpc, fret, frc, probes, audioDir, audioFiles,
              textFiles, bResult, bCancelled>>
audioVars == <<aPc, layout, disk, rate, ledgerFile, ledgerWrites, ledgerReads, metadata_df,
               qualified_dir, audiobooks, processed, convertCalls, combineCalls>>
durVars == <<dPc, dComps, time_str, unit, dResult>>
consVars == <<cPc, mBooks, mOk, mRun, mPending, recordFiles, cTodo, all_metadata,
              csvFile>>
groupVars == <<gPc, firstGroups, secondGroups, secondMoved>>
vars == <<poolVars, bookVars, audioVars, durVars, consVars, groupVars>>

Min(a, b) == IF a <= b THEN a ELSE b

\* ======================================================================
\*  Bounded task pool
\* ======================================================================
Units == 1..nUnits

PoolIdle ==
  /\ pool = "metadata" /\ limit = 0 /\ nUnits = 0 /\ semaphore = 0
  /\ pc = <<>> /\ result = <<>> /\ started = <<>> /\ saved = {}
  /\ unreached = {}
  /\ doneQ = <<>> /\ delivered = 0 /\ consumer = "finished" /\ cancelling = "no"

\* asyncio.Semaphore(min(FETCH_METADATA_LIMIT, len(text_urls)))
MetadataLimit(cap, m) == Min(cap, m)

\* asyncio.Semaphore(DOWNLOAD_BOOK_LIMIT)
DownloadLimit(cap, m) == cap

\* The state once the pool's tasks are created and the consuming loop begins.
PoolInit ==
  /\ pool \in {"metadata", "download"}
  /\ nUnits \in 0..MaxUnits
  /\ \E cap \in 1..MaxLimit :
       limit = IF pool = "metadata" THEN MetadataLimit(cap, nUnits)
                                    ELSE DownloadLimit(cap, nUnits)
  /\ semaphore = limit
  /\ pc = [u \in Units |-> "new"]
  /\ result = [u \in Units |-> "none"]
  /\ started = [u \in Units |-> 0]
  /\ saved = {}
  /\ unreached = {}
  /\ doneQ = <<>>
  /\ delivered = 0
  /\ consumer = IF nUnits = 0 THEN "finished" ELSE "running"
  /\ cancelling = "no"

\* Positions inside "async with semaphore".
InSection == {"fetch", "links", "resolving", "fetching"}
Inside == {u \in Units : pc[u] \in InSection}

\* First suspension point inside the guarded section.
FirstPhase == IF pool = "metadata" THEN "fetch" ELSE "resolving"

\* Semaphore.acquire succeeds without waiting only while a slot is free.
CanAcquireAlways == TRUE
CanAcquire == semaphore > 0

\* A section left without its slot when it ends by an exception.
FinishLeaking(u, r) ==
  /\ pc' = [pc EXCEPT ![u] = "done"]
  /\ result' = [result EXCEPT ![u] = r]
  /\ semaphore' = IF r \in {"raised", "cancelled"} THEN semaphore ELSE semaphore + 1
  /\ doneQ' = Append(doneQ, u)

\* Leaving "async with": the slot is released and the task is done.
Finish(u, r) ==
  /\ pc' = [pc EXCEPT ![u] = "done"]
  /\ result' = [result EXCEPT ![u] = r]
  /\ semaphore' = semaphore + 1
  /\ doneQ' = Append(doneQ, u)

\* The task's first step: runs up to "async with semaphore".
Start(u) ==
  /\ pc[u] = "new"
  /\ started' = [started EXCEPT ![u] = @ + 1]
  /\ IF CanAcquire
       THEN /\ semaphore' = semaphore - 1
            /\ pc' = [pc EXCEPT ![u] = FirstPhase]
       ELSE /\ pc' = [pc EXCEPT ![u] = "waiting"]
            /\ UNCHANGED semaphore
  /\ UNCHANGED <<pool, limit, nUnits, result, saved, unreached, doneQ, delivered, consumer,
                 cancelling>>

\* A waiter is woken once a slot is free.
Wake(u) ==
  /\ pc[u] = "waiting"
  /\ CanAcquire
  /\ semaphore' = semaphore - 1
  /\ pc' = [pc EXCEPT ![u] = FirstPhase]
  /\ UNCHANGED <<pool, limit, nUnits, result, started, saved, unreached, doneQ, delivered,
                 consumer, cancelling>>

\* get_book_metadata: the two page fetches. Only httpx.HTTPStatusError is
\* caught. What utils.get_web_content does when the connection fails is not
\* in the files at hand: it lets the error through ("other_error") or gives
\* no parser ("no_parser"), which the extraction below provides for.
MetaFetchPages(u) ==
  /\ pool = "metadata" /\ pc[u] = "fetch"
  /\ \E outcome \in {"ok", "http_status_error", "other_error", "no_parser"} :
       /\ unreached' = IF outcome = "ok" THEN unreached ELSE unreached \cup {u}
       /\ CASE outcome \in {"ok", "no_parser"} ->
                /\ pc' = [pc EXCEPT ![u] = "links"]
                /\ UNCHANGED <<result, semaphore, doneQ>>
            [] outcome = "http_status_error" -> Finish(u, "None")
            [] OTHER -> Finish(u, "raised")
  /\ UNCHANGED <<pool, limit, nUnits, started, saved, delivered, consumer, cancelling>>

\* get_book_metadata: field extraction, link resolution, save_json, return book.
\* Nothing here is inside a try block.
MetaSave(u) ==
  /\ pool = "metadata" /\ pc[u] = "links"
  /\ \E outcome \in {"ok", "error"} :
       IF outcome = "ok"
         THEN /\ saved' = saved \cup {u}
              /\ Finish(u, "Book")
         ELSE /\ UNCHANGED saved
              /\ Finish(u, "raised")
  /\ UNCHANGED <<pool, limit, nUnits, started, unreached, delivered, consumer,
                 cancelling>>

\* download_full_book: await utils.fetch_download_audio_url; "except Exception"
\* turns a failure into the return value False.
DlResolve(u) ==
  /\ pool = "download" /\ pc[u] = "resolving"
  /\ \E outcome \in {"ok", "error"} :
       IF outcome = "ok"
         THEN /\ pc' = [pc EXCEPT ![u] = "fetching"]
              /\ UNCHANGED <<result, semaphore, doneQ>>
         ELSE Finish(u, "False")
  /\ UNCHANGED <<pool, limit, nUnits, started, saved, unreached, delivered, consumer, cancelling>>

\* download_full_book: asyncio.gather(*tasks, return_exceptions=True) returns,
\* then "return True".
DlGather(u) ==
  /\ pool = "download" /\ pc[u] = "fetching"
  /\ Finish(u, "True")
  /\ UNCHANGED <<pool, limit, nUnits, started, saved, unreached, delivered, consumer, cancelling>>

\* One iteration of "for task in as_completed(...): await task".
Consume ==
  /\ consumer = "running"
  /\ doneQ # <<>>
  /\ LET u == Head(doneQ) IN
       /\ doneQ' = Tail(doneQ)
       /\ delivered' = delivered + 1
       /\ consumer' = IF result[u] \in {"raised", "cancelled"} THEN "aborted"
                      ELSE IF delivered + 1 = nUnits THEN "finished"
                      ELSE "running"
  /\ UNCHANGED <<pool, limit, nUnits, semaphore, pc, result, started, saved, unreached,
                 cancelling>>

\* A user interrupt: asyncio.run cancels the main task, then every other task.
ExternalCancel ==
  /\ cancelling = "no"
  /\ consumer = "running"
  /\ cancelling' = "external"
  /\ consumer' = "cancelled"
  /\ UNCHANGED <<pool, limit, nUnits, semaphore, pc, result, started, saved, unreached, doneQ,
                 delivered>>

\* The exception left the consuming loop and main(): asyncio.run cancels what is left.
RunnerTeardown ==
  /\ cancelling = "no"
  /\ consumer = "aborted"
  /\ cancelling' = "teardown"
  /\ UNCHANGED <<pool, limit, nUnits, semaphore, pc, result, started, saved, unreached, doneQ,
                 delivered, consumer>>

\* CancelledError is thrown into a task at its suspension point.
CancelUnit(u) ==
  /\ cancelling # "no"
  /\ pc[u] # "done"
  /\ CASE pc[u] \in {"new", "waiting"} ->
            /\ pc' = [pc EXCEPT ![u] = "done"]
            /\ result' = [result EXCEPT ![u] = "cancelled"]
            /\ doneQ' = Append(doneQ, u)
            /\ UNCHANGED semaphore
       [] pc[u] \in {"fetch", "links"} -> Finish(u, "cancelled")
       [] OTHER -> Finish(u, "False")
  /\ UNCHANGED <<pool, limit, nUnits, started, saved, unreached, delivered, consumer, cancelling>>


\* ======================================================================
\*  One per-book download unit (download_full_book and its fetches)
\* ======================================================================
\* Extensions the last segment of a text download URL may carry.
TextExts == {".txt", ".pdf", ".epub"}

Fetches == 0..bK
AllFetches == 0..MaxParts

BookIdle ==
  /\ bPhase = "idle" /\ bExt = ".txt" /\ bK = 0
  /\ fpc = [i \in AllFetches |-> "none"]
  /\ fret = [i \in AllFetches |-> "none"]
  /\ frc = [i \in AllFetches |-> -1]
  /\ probes = [i \in AllFetches |-> 0]
  /\ audioDir = FALSE /\ audioFiles = {} /\ textFiles = {}
  /\ bResult = "none" /\ bCancelled = "no"

\* download_full_book has been called and awaits the link resolution.
BookInit ==
  /\ bPhase = "resolving"
  /\ bExt \in TextExts
  /\ bK = 0
  /\ fpc = [i \in AllFetches |-> "none"]
  /\ fret = [i \in AllFetches |-> "none"]
  /\ frc = [i \in AllFetches |-> -1]
  /\ probes = [i \in AllFetches |-> 0]
  /\ audioDir = FALSE /\ audioFiles = {} /\ textFiles = {}
  /\ bResult = "none" /\ bCancelled = "no"

\* download_by_cli: ext = os.path.splitext(url.split("/")[-1])[1];
\* save_path = directory/filename + ext.
SaveExt(urlExt) == urlExt

\* The cancellation handler's text_file = <text_save_path>/<name_book>.txt.
CleanupExt == ".txt"

\* utils.fetch_download_audio_url returns the part URLs, or raises; the fetch
\* coroutines are created and handed to asyncio.gather.
BookResolve ==
  /\ bPhase = "resolving"
  /\ \E outcome \in {"ok", "error"} :
       IF outcome = "ok"
         THEN \E k \in 0..MaxParts :
                /\ bK' = k
                /\ fpc' = [i \in AllFetches |-> IF i <= k THEN "new" ELSE "none"]
                /\ bPhase' = "fetching"
                /\ UNCHANGED bResult
         ELSE /\ bPhase' = "done"
              /\ bResult' = "False"
              /\ UNCHANGED <<bK, fpc>>
  /\ UNCHANGED <<bExt, fret, frc, probes, audioDir, audioFiles, textFiles, bCancelled>>

\* download_by_cli up to its first await: os.makedirs(directory), save_path.
FetchStart(i) ==
  /\ bPhase = "fetching" /\ fpc[i] = "new"
  /\ fpc' = [fpc EXCEPT ![i] = "probing"]
  /\ audioDir' = (audioDir \/ i >= 1)
  /\ UNCHANGED <<bPhase, bExt, bK, fret, frc, probes, audioFiles, textFiles, bResult,
                 bCancelled>>

\* A probe that is tried a second time after it failed once.
FetchProbeRetrying(i) ==
  /\ bPhase = "fetching" /\ fpc[i] = "probing"
  /\ probes' = [probes EXCEPT ![i] = @ + 1]
  /\ \E outcome \in {"ok", "status_ge_400", "connect_error"} :
       IF outcome = "ok"
         THEN /\ fpc' = [fpc EXCEPT ![i] = "downloading"]
              /\ IF i = 0
                   THEN /\ textFiles' = textFiles \cup {SaveExt(bExt)}
                        /\ UNCHANGED audioFiles
                   ELSE /\ audioFiles' = audioFiles \cup {i}
                        /\ UNCHANGED textFiles
              /\ UNCHANGED fret
         ELSE /\ fpc' = [fpc EXCEPT ![i] = IF probes[i] = 0 THEN "probing" ELSE "done"]
              /\ fret' = [fret EXCEPT ![i] = IF probes[i] = 0 THEN @ ELSE "False"]
              /\ UNCHANGED <<audioFiles, textFiles>>
  /\ UNCHANGED <<bPhase, bExt, bK, frc, audioDir, bResult, bCancelled>>

\* The HEAD request: status >= 400 or a connection error returns False;
\* otherwise the wget subprocess is started and begins to write save_path.
FetchProbe(i) ==
  /\ bPhase = "fetching" /\ fpc[i] = "probing"
  /\ probes' = [probes EXCEPT ![i] = @ + 1]
  /\ \E outcome \in {"ok", "status_ge_400", "connect_error"} :
       IF outcome = "ok"
         THEN /\ fpc' = [fpc EXCEPT ![i] = "downloading"]
              /\ IF i = 0
                   THEN /\ textFiles' = textFiles \cup {SaveExt(bExt)}
                        /\ UNCHANGED audioFiles
                   ELSE /\ audioFiles' = audioFiles \cup {i}
                        /\ UNCHANGED textFiles
              /\ UNCHANGED fret
         ELSE /\ fpc' = [fpc EXCEPT ![i] = "done"]
              /\ fret' = [fret EXCEPT ![i] = "False"]
              /\ UNCHANGED <<audioFiles, textFiles>>
  /\ UNCHANGED <<bPhase, bExt, bK, frc, audioDir, bResult, bCancelled>>

\* process.communicate() returns; the exit status is not looked at; "return".
FetchFinish(i) ==
  /\ bPhase = "fetching" /\ fpc[i] = "downloading"
  /\ \E rc \in {0, 1} : frc' = [frc EXCEPT ![i] = rc]
  /\ fpc' = [fpc EXCEPT ![i] = "done"]
  /\ fret' = [fret EXCEPT ![i] = "None"]
  /\ UNCHANGED <<bPhase, bExt, bK, probes, audioDir, audioFiles, textFiles, bResult,
                 bCancelled>>

\* gather returns once every fetch is done; its results are dropped; "return True".
BookGatherDone ==
  /\ bPhase = "fetching"
  /\ \A i \in Fetches : fpc[i] = "done"
  /\ bPhase' = "done"
  /\ bResult' = "True"
  /\ UNCHANGED <<bExt, bK, fpc, fret, frc, probes, audioDir, audioFiles, textFiles,
                 bCancelled>>

\* "except asyncio.CancelledError": gather has cancelled the fetches; the audio
\* directory is removed if it exists, <name_book>.txt is removed if it exists,
\* and the handler returns False. A fetch cancelled while it awaits
\* process.communicate() leaves its wget subprocess running ("orphaned"):
\* download_by_cli has no handler that terminates it.
BookCancel ==
  /\ bPhase \in {"resolving", "fetching"}
  /\ bCancelled' = bPhase
  /\ fpc' = [i \in AllFetches |-> IF fpc[i] \in {"none", "done"} THEN fpc[i]
                                  ELSE IF fpc[i] = "downloading" THEN "orphaned"
                                  ELSE "cancelled"]
  /\ audioDir' = FALSE
  /\ audioFiles' = {}
  /\ textFiles' = textFiles \ {CleanupExt}
  /\ bPhase' = "done"
  /\ bResult' = "False"
  /\ UNCHANGED <<bExt, bK, fret, frc, probes>>

\* The wget subprocess of a cancelled fetch exits on its own; the file it was
\* writing has been unlinked by the handler or is left as it is.
OrphanExit(i) ==
  /\ fpc[i] = "orphaned"
  /\ fpc' = [fpc EXCEPT ![i] = "cancelled"]
  /\ UNCHANGED <<bPhase, bExt, bK, fret, frc, probes, audioDir, audioFiles, textFiles,
                 bResult, bCancelled>>

\* A fetch whose coroutine or subprocess has not ended.
InFlight(i) == fpc[i] \in {"new", "probing", "downloading", "orphaned"}

\* main has created the download pool; unit 1 is the book followed in detail.
SlotInit ==
  /\ pool = "download"
  /\ nUnits \in 1..Min(MaxUnits, 2)
  /\ \E cap \in 1..MaxLimit : limit = DownloadLimit(cap, nUnits)
  /\ semaphore = limit
  /\ pc = [u \in Units |-> "new"]
  /\ result = [u \in Units |-> "none"]
  /\ started = [u \in Units |-> 0]
  /\ saved = {}
  /\ unreached = {}
  /\ doneQ = <<>>
  /\ delivered = 0
  /\ consumer = "running"
  /\ cancelling = "no"
  /\ bPhase = "idle"
  /\ bExt \in TextExts
  /\ bK = 0
  /\ fpc = [i \in AllFetches |-> "none"]
  /\ fret = [i \in AllFetches |-> "none"]
  /\ frc = [i \in AllFetches |-> -1]
  /\ probes = [i \in AllFetches |-> 0]
  /\ audioDir = FALSE /\ audioFiles = {} /\ textFiles = {}
  /\ bResult = "none" /\ bCancelled = "no"

\* download_with_semaphore: once the slot is taken download_full_book is
\* called and awaits the link resolution.
EnterBook(u) ==
  IF u = 1 /\ pc'[1] = "resolving"
    THEN /\ bPhase' = "resolving"
         /\ UNCHANGED <<bExt, bK, fpc, fret, frc, probes, audioDir, audioFiles,
                        textFiles, bResult, bCancelled>>
    ELSE UNCHANGED bookVars

SlotStart(u) == Start(u) /\ EnterBook(u)

SlotWake(u) == Wake(u) /\ EnterBook(u)

\* Unit 1's link resolution, with what it means for the unit's slot.
SlotResolve ==
  /\ pool = "download" /\ pc[1] = "resolving"
  /\ BookResolve
  /\ IF bPhase' = "fetching"
       THEN /\ pc' = [pc EXCEPT ![1] = "fetching"]
            /\ UNCHANGED <<result, semaphore, doneQ>>
       ELSE Finish(1, "False")
  /\ UNCHANGED <<pool, limit, nUnits, started, saved, unreached, delivered, consumer,
                 cancelling>>

\* Unit 1's gather returns: download_full_book returns True and the slot is
\* released.
SlotGather == BookGatherDone /\ DlGather(1)

\* Unit 1 is cancelled inside download_full_book, or before it was called.
SlotCancel ==
  /\ CancelUnit(1)
  /\ IF pc[1] \in {"resolving", "fetching"} THEN BookCancel ELSE UNCHANGED bookVars


\* ======================================================================
\*  Strings: a string is a sequence of one-character strings
\* ======================================================================
\* Code point of a character (Python compares strings by code point).
Ord(c) ==
  CASE c = "." -> 46 [] c = "/" -> 47
    [] c = "0" -> 48 [] c = "1" -> 49 [] c = "2" -> 50 [] c = "3" -> 51
    [] c = "4" -> 52 [] c = "5" -> 53 [] c = "6" -> 54 [] c = "7" -> 55
    [] c = "8" -> 56 [] c = "9" -> 57
    [] c = "_" -> 95 [] c = "a" -> 97 [] c = "b" -> 98 [] c = "h" -> 104
    [] c = "i" -> 105 [] c = "l" -> 108 [] c = "m" -> 109 [] c = "n" -> 110
    [] c = "p" -> 112 [] c = "q" -> 113 [] c = "r" -> 114 [] c = "s" -> 115
    [] c = "t" -> 116 [] c = "u" -> 117 [] c = "v" -> 118 [] c = "w" -> 119
    [] c = "x" -> 120

DigitChar(d) ==
  CASE d = 0 -> "0" [] d = 1 -> "1" [] d = 2 -> "2" [] d = 3 -> "3" [] d = 4 -> "4"
    [] d = 5 -> "5" [] d = 6 -> "6" [] d = 7 -> "7" [] d = 8 -> "8" [] d = 9 -> "9"

\* str(n) for n >= 0.
RECURSIVE Digits(_)
Digits(n) == IF n < 10 THEN <<DigitChar(n)>>
             ELSE Digits(n \div 10) \o <<DigitChar(n % 10)>>

\* int(s) for a string of decimal digits.
RECURSIVE ParseNat(_)
ParseNat(ds) ==
  IF ds = <<>> THEN 0
  ELSE 10 * ParseNat(SubSeq(ds, 1, Len(ds) - 1)) + (Ord(ds[Len(ds)]) - Ord("0"))

StartsWith(s, pre) ==
  /\ Len(pre) <= Len(s)
  /\ SubSeq(s, 1, Len(pre)) = pre

\* s.endswith(suf)
EndsWith(s, suf) ==
  /\ Len(suf) <= Len(s)
  /\ SubSeq(s, Len(s) - Len(suf) + 1, Len(s)) = suf

\* Position of the first / last occurrence of character c in s, 0 if none.
FirstIndex(s, c) ==
  IF \E i \in 1..Len(s) : s[i] = c
    THEN CHOOSE i \in 1..Len(s) : s[i] = c /\ \A j \in 1..(i - 1) : s[j] # c
    ELSE 0

LastIndex(s, c) ==
  IF \E i \in 1..Len(s) : s[i] = c
    THEN CHOOSE i \in 1..Len(s) : s[i] = c /\ \A j \in (i + 1)..Len(s) : s[j] # c
    ELSE 0

\* s.split(c)[0]
SplitFirst(s, c) ==
  IF FirstIndex(s, c) = 0 THEN s ELSE SubSeq(s, 1, FirstIndex(s, c) - 1)

\* s.split(c)[-1]
SplitLast(s, c) == SubSeq(s, LastIndex(s, c) + 1, Len(s))

\* os.path.dirname
Dirname(p) == IF LastIndex(p, "/") = 0 THEN <<>> ELSE SubSeq(p, 1, LastIndex(p, "/") - 1)

\* os.path.join(d, name)
Join(d, name) ==
  IF d = <<>> \/ EndsWith(d, <<"/">>) THEN d \o name ELSE d \o <<"/">> \o name

\* s.replace(old, new): every non-overlapping occurrence, left to right.
RECURSIVE Replace(_, _, _)
Replace(s, old, new) ==
  IF Len(s) < Len(old) THEN s
  ELSE IF SubSeq(s, 1, Len(old)) = old
    THEN new \o Replace(SubSeq(s, Len(old) + 1, Len(s)), old, new)
    ELSE <<s[1]>> \o Replace(Tail(s), old, new)

\* a < b for Python strings.
StrLess(a, b) ==
  \E k \in 1..(Min(Len(a), Len(b)) + 1) :
    /\ \A j \in 1..(k - 1) : a[j] = b[j]
    /\ IF k > Len(a) THEN k <= Len(b)
       ELSE k <= Len(b) /\ Ord(a[k]) < Ord(b[k])

\* sorted(files) for a set of distinct strings.
RECURSIVE Sorted(_)
Sorted(S) ==
  IF S = {} THEN <<>>
  ELSE LET m == CHOOSE x \in S : \A y \in S \ {x} : StrLess(x, y)
       IN <<m>> \o Sorted(S \ {m})

\* pandas Series.str.contains(pat) with its default regex=True: pat is searched
\* anywhere in s, and "." in pat matches any character.
RegexContains(s, pat) ==
  \E off \in 0..(Len(s) - Len(pat)) :
    \A i \in 1..Len(pat) : pat[i] = "." \/ pat[i] = s[off + i]

Range(f) == {f[i] : i \in DOMAIN f}

RECURSIVE SeqSum(_)
SeqSum(q) == IF q = <<>> THEN 0 ELSE Head(q) + SeqSum(Tail(q))

\* min(sample_rates)
SeqMin(q) == CHOOSE m \in Range(q) : \A x \in Range(q) : m <= x

\* max(sample_rates)
SeqMax(q) == CHOOSE m \in Range(q) : \A x \in Range(q) : m >= x

\* np.mean(sample_rates), kept exact as sum over count.
Mean(q) == [sum |-> SeqSum(q), n |-> Len(q)]

\* ======================================================================
\*  convert_duration (crawler/metadata.py)
\* ======================================================================
None == [kind |-> "None"]
IntValue(n) == [kind |-> "int", val |-> n]
\* A float with four decimals, kept exact as a count of ten-thousandths.
FloatValue(n) == [kind |-> "float", e4 |-> n]
StrValue(s) == [kind |-> "str", val |-> s]

\* s.split(sep) for a one-character separator.
RECURSIVE Split(_, _)
Split(s, sep) ==
  IF FirstIndex(s, sep) = 0 THEN <<s>>
  ELSE <<SubSeq(s, 1, FirstIndex(s, sep) - 1)>>
         \o Split(SubSeq(s, FirstIndex(s, sep) + 1, Len(s)), sep)

\* sep.join(parts)
RECURSIVE JoinWith(_, _)
JoinWith(parts, sep) ==
  IF Len(parts) = 0 THEN <<>>
  ELSE IF Len(parts) = 1 THEN parts[1]
  ELSE parts[1] \o <<sep>> \o JoinWith(Tail(parts), sep)

IsDigit(c) == c \in {"0", "1", "2", "3", "4", "5", "6", "7", "8", "9"}

\* int(s): an optional sign followed by at least one decimal digit; anything
\* else raises ValueError.
IntRaises(s) ==
  LET body == IF s # <<>> /\ s[1] \in {"-", "+"} THEN Tail(s) ELSE s
  IN body = <<>> \/ \E i \in DOMAIN body : ~IsDigit(body[i])

IntOf(s) ==
  IF s[1] = "-" THEN 0 - ParseNat(Tail(s))
  ELSE IF s[1] = "+" THEN ParseNat(Tail(s))
  ELSE ParseNat(s)

\* reversed(time_values)
Reversed(q) == [i \in 1..Len(q) |-> q[Len(q) + 1 - i]]

RECURSIVE Pow(_, _)
Pow(b, e) == IF e = 0 THEN 1 ELSE b * Pow(b, e - 1)

\* sum(int(num) * 60**i for i, num in enumerate(values))
RECURSIVE WeightedSum(_, _)
WeightedSum(values, i) ==
  IF values = <<>> THEN 0
  ELSE IntOf(Head(values)) * Pow(60, i) + WeightedSum(Tail(values), i + 1)

\* The components weighted from the first one on.
WeightOrderForward(time_values) == time_values

\* The components in the order the weights 60**0, 60**1, ... are given to.
WeightOrder(time_values) == Reversed(time_values)

\* round(total / d, 4) in ten-thousandths; no quotient by 60 or 3600 lies
\* half-way between two such values.
Round4(total, d) ==
  (total \div d) * 10000 + (2 * (total % d) * 10000 + d) \div (2 * d)

convert_duration(t, u) ==
  IF t.kind # "str" THEN None
  ELSE LET time_values == Split(t.val, ":")
       IN IF \E i \in DOMAIN time_values : IntRaises(time_values[i]) THEN None
          ELSE LET total_seconds == WeightedSum(WeightOrder(time_values), 0)
               IN CASE u = "second" -> IntValue(total_seconds)
                    [] u = "minute" -> FloatValue(Round4(total_seconds, 60))
                    [] u = "hour" -> FloatValue(Round4(total_seconds, 3600))
                    [] OTHER -> None

\* Components a duration string is written from, with the integer each one
\* denotes (bad: it denotes none).
DurationComponents ==
  { [text |-> <<"0">>, bad |-> FALSE, int |-> 0],
    [text |-> <<"1">>, bad |-> FALSE, int |-> 1],
    [text |-> <<"0", "0">>, bad |-> FALSE, int |-> 0],
    [text |-> <<"0", "2">>, bad |-> FALSE, int |-> 2],
    [text |-> <<"0", "3">>, bad |-> FALSE, int |-> 3],
    [text |-> <<"0", "5">>, bad |-> FALSE, int |-> 5],
    [text |-> <<"1", "2">>, bad |-> FALSE, int |-> 12],
    [text |-> <<"-", "1">>, bad |-> FALSE, int |-> 0 - 1],
    [text |-> <<>>, bad |-> TRUE, int |-> 0],
    [text |-> <<"x">>, bad |-> TRUE, int |-> 0],
    [text |-> <<"1", "x">>, bad |-> TRUE, int |-> 0],
    [text |-> <<"-">>, bad |-> TRUE, int |-> 0] }

ComponentLists == UNION {[1..k -> DurationComponents] : k \in 1..MaxComponents}

Texts(comps) == [i \in DOMAIN comps |-> comps[i].text]

DurIdle ==
  /\ dPc = "idle" /\ dComps = <<>> /\ time_str = None /\ unit = "second"
  /\ dResult = None

\* convert_duration is called with a string of colon-separated components or
\* with a value that is not a string.
DurInit ==
  /\ dPc = "call"
  /\ \/ /\ dComps \in ComponentLists
        /\ time_str = StrValue(JoinWith(Texts(dComps), ":"))
     \/ /\ dComps = <<>>
        /\ time_str \in {None, IntValue(300), FloatValue(15000)}
  /\ unit \in {"second", "minute", "hour", "day"}
  /\ dResult = None

Convert ==
  /\ dPc = "call"
  /\ dPc' = "done"
  /\ dResult' = convert_duration(time_str, unit)
  /\ UNCHANGED <<dComps, time_str, unit>>

\* ======================================================================
\*  Per-book record files and their consolidation (crawler/metadata.py)
\* ======================================================================
\* Last path segments of the books' page URLs.
SlugLetters == <<"a", "b", "c", "d", "e">>
Slug(k) == <<SlugLetters[k]>>

\* The audiobook page URL recorded in a book's ledger row.
AudioUrl(b) == <<"h", "/">> \o b

\* The page URL of an audiobook that is a TV show.
TvUrl(b) == <<"h", "/", "t", "v", "s", "h", "o", "w", "s", "/">> \o b

\* constants.TEXT_BASE_URL
TEXT_BASE_URL == <<"t", "/">>

\* The text-page URL main builds for an audiobook page URL.
TextUrl(audio_url) == TEXT_BASE_URL \o SplitLast(audio_url, "/")

\* A file name that also carries the number of the run.
RecordFileNamePerRun(text_url) ==
  SplitLast(text_url, "/") \o Digits(mRun) \o <<".", "j", "s", "o", "n">>

\* file_name = f"{text_url[0].split('/')[-1]}.json"
RecordFileName(text_url) == SplitLast(text_url, "/") \o <<".", "j", "s", "o", "n">>

\* The JSON object save_json writes for a Book; seq is a ghost that tells
\* the extractions apart.
BookRecord(audio_url, duration, seq) ==
  [kind |-> "book", text_url |-> TextUrl(audio_url), audio_url |-> audio_url,
   duration |-> duration, seq |-> seq]

\* A file whose text is not JSON.
CorruptRecord == [kind |-> "corrupt"]

\* Values of a record's duration field: a duration, or the "Unknown" the
\* extractor writes when the page shows none.
RecordDurations ==
  { StrValue(<<"1", ":", "0", "2", ":", "0", "3">>),
    StrValue(<<"U", "n", "k", "n", "o", "w", "n">>) }

NoFiles == [f \in {} |-> CorruptRecord]

\* book.save_json(full_path): the file is created or overwritten.
SaveJson(files, name, content) ==
  [f \in DOMAIN files \cup {name} |-> IF f = name THEN content ELSE files[f]]

ConsIdle ==
  /\ cPc = "idle" /\ mBooks = <<>> /\ mOk = <<>> /\ mRun = 0 /\ mPending = {}
  /\ recordFiles = NoFiles /\ cTodo = {} /\ all_metadata = <<>> /\ csvFile = <<>>

\* convert_metadata_to_csv is called on a metadata directory holding up to
\* MaxRecords record files, some of them not parseable.
ConsInit ==
  /\ cPc = "glob"
  /\ mBooks = <<>> /\ mOk = <<>> /\ mRun = 0 /\ mPending = {}
  /\ \E present \in SUBSET (1..MaxRecords) :
       recordFiles \in
         [{RecordFileName(TextUrl(AudioUrl(Slug(k)))) : k \in present} ->
            {CorruptRecord}
              \cup {BookRecord(u, d, 0) :
                     u \in {AudioUrl(Slug(k)) : k \in present}
                           \cup {TvUrl(Slug(k)) : k \in present},
                     d \in RecordDurations}]
  /\ \A f \in DOMAIN recordFiles :
       recordFiles[f].kind = "book"
         => RecordFileName(recordFiles[f].text_url) = f
  /\ cTodo = {} /\ all_metadata = <<>> /\ csvFile = <<>>

\* The metadata pipeline is run on a list of up to MaxInputs books with an
\* empty metadata directory; every run gets the same extractor results.
RecordsInit ==
  /\ cPc = "extract"
  /\ \E n \in 1..MaxInputs :
       /\ mBooks \in [1..n -> {AudioUrl(Slug(1)), AudioUrl(Slug(2)), TvUrl(Slug(1))}]
       /\ mOk \in [1..n -> BOOLEAN]
       /\ mPending = 1..n
  /\ mRun = 1
  /\ recordFiles = NoFiles
  /\ cTodo = {} /\ all_metadata = <<>> /\ csvFile = <<>>

\* One unit of the pipeline: get_book_metadata for input u ends with a
\* record written under the name derived from the text-page URL, or with
\* None and no file.
ExtractUnit(u) ==
  /\ cPc = "extract"
  /\ u \in mPending
  /\ mPending' = mPending \ {u}
  /\ recordFiles' =
       IF mOk[u]
         THEN SaveJson(recordFiles, RecordFileName(TextUrl(mBooks[u])),
                       BookRecord(mBooks[u], StrValue(<<"0", "5", ":", "0", "0">>),
                                  <<mRun, u>>))
         ELSE recordFiles
  /\ UNCHANGED <<cPc, mBooks, mOk, mRun, cTodo, all_metadata, csvFile>>

\* The pipeline is run again on the same input list.
Rerun ==
  /\ cPc = "extract"
  /\ mPending = {}
  /\ mRun < MaxRuns
  /\ mRun' = mRun + 1
  /\ mPending' = DOMAIN mBooks
  /\ UNCHANGED <<cPc, mBooks, mOk, recordFiles, cTodo, all_metadata, csvFile>>

\* The last run is over and the consolidation is called.
EndRuns ==
  /\ cPc = "extract"
  /\ mPending = {}
  /\ cPc' = "glob"
  /\ UNCHANGED <<mBooks, mOk, mRun, mPending, recordFiles, cTodo, all_metadata,
                 csvFile>>

\* json_files = metadata_path.glob("*.json"); all_metadata = []
Glob ==
  /\ cPc = "glob"
  /\ cPc' = "loop"
  /\ cTodo' = DOMAIN recordFiles
  /\ all_metadata' = <<>>
  /\ UNCHANGED <<mBooks, mOk, mRun, mPending, recordFiles, csvFile>>

\* The row the loop appends for a parsed record.
WithDurationHours(data) ==
  [text_url |-> data.text_url, audio_url |-> data.audio_url,
   duration |-> data.duration, seq |-> data.seq,
   duration_hours |-> IF data.duration.kind = "str"
                        THEN convert_duration(data.duration, "hour")
                        ELSE None]

\* A loop iteration without the except clause: a parse error ends the run.
ReadRecordAborting ==
  /\ cPc = "loop"
  /\ \E f \in cTodo :
       /\ cTodo' = cTodo \ {f}
       /\ cPc' = IF recordFiles[f].kind = "corrupt" THEN "aborted" ELSE cPc
       /\ all_metadata' =
            IF recordFiles[f].kind = "corrupt" THEN all_metadata
            ELSE Append(all_metadata, WithDurationHours(recordFiles[f]))
  /\ UNCHANGED <<mBooks, mOk, mRun, mPending, recordFiles, csvFile>>

\* One iteration of the loop over the record files, in the order glob
\* yields them: a file that does not parse is reported and skipped.
ReadRecord ==
  /\ cPc = "loop"
  /\ \E f \in cTodo :
       /\ cTodo' = cTodo \ {f}
       /\ all_metadata' =
            IF recordFiles[f].kind = "corrupt" THEN all_metadata
            ELSE Append(all_metadata, WithDurationHours(recordFiles[f]))
  /\ UNCHANGED <<cPc, mBooks, mOk, mRun, mPending, recordFiles, csvFile>>

\* process_df of the definition at lines 123-176, which the definition at
\* line 260 replaces when the module is loaded: it drops the TV shows.
process_df(df) ==
  SelectSeq(df, LAMBDA row :
    ~RegexContains(row.audio_url, <<"t", "v", "s", "h", "o", "w", "s">>))

\* End of convert_metadata_to_csv as the module exposes it (line 260): the
\* rows are written as they were read, or nothing is written when there are
\* none.
WriteLedger ==
  /\ cPc = "loop"
  /\ cTodo = {}
  /\ cPc' = "done"
  /\ csvFile' = IF all_metadata # <<>> THEN all_metadata ELSE csvFile
  /\ UNCHANGED <<mBooks, mOk, mRun, mPending, recordFiles, cTodo, all_metadata>>

\* ======================================================================
\*  Audio qualification (pre_processing/audio.py)
\* ======================================================================
\* constants.MIN_SAMPLE_RATE; its value is set outside the files at hand.
MIN_SAMPLE_RATE == 2

\* Marks a part whose header cannot be read: MP3(mp3_path) raises.
Unreadable == -1

\* What a part carries: a sample rate, or no readable header.
Rates == {Unreadable, MIN_SAMPLE_RATE - 1, MIN_SAMPLE_RATE, MIN_SAMPLE_RATE + 1}

\* Book names (name_book of the downloader).
Books == {<<"a">>, <<"b">>}

mp3_dir == <<"r">>

\* An unqualified root placed inside the raw root.
UnqualifiedUnderRaw == <<"r", "/", "u">>

unqualified_dir == <<"u">>

\* download_full_book: filename = f"{name_book}_{idx}", plus the URL's extension.
PartName(b, i) == b \o <<"_">> \o Digits(i) \o <<".", "m", "p", "3">>

\* download_full_book: directory = os.path.join(audio_save_path, name_book).
DownloaderPath(b, i) == Join(Join(mp3_dir, b), PartName(b, i))

\* The layout group_audiobook reads: part files directly in mp3_dir.
FlatPath(b, i) == Join(mp3_dir, PartName(b, i))

\* Ledger rows as consolidation leaves them (no qualification columns yet).
ConsolidatedLedger ==
  LET bs == Sorted(Books)
  IN [k \in 1..Len(bs) |->
        [book |-> bs[k], audio_url |-> AudioUrl(bs[k]),
         sample_rate |-> "None", qualified |-> "None"]]

AudioIdle ==
  /\ aPc = "idle" /\ layout = "flat" /\ disk = {} /\ rate = <<>> /\ ledgerFile = <<>>
  /\ ledgerWrites = 0 /\ ledgerReads = 0 /\ metadata_df = <<>>
  /\ qualified_dir = <<"q">> /\ audiobooks = <<>> /\ processed = {}
  /\ convertCalls = {} /\ combineCalls = {}

\* The state in which process_audio_files is called.
AudioInit ==
  /\ aPc = "start"
  /\ layout \in {"flat", "downloader"}
  /\ \E nparts \in [Books -> 0..MaxParts], stray \in BOOLEAN :
       LET parts == {<<b, i>> \in Books \X (1..MaxParts) : i <= nparts[b]}
           names == {PartName(x[1], x[2]) : x \in parts}
       IN /\ layout = "downloader" => ~stray
          /\ disk = {IF layout = "flat" THEN FlatPath(x[1], x[2])
                     ELSE DownloaderPath(x[1], x[2]) : x \in parts}
                    \cup (IF stray THEN {Join(mp3_dir, <<"x", ".", "t", "x", "t">>)}
                          ELSE {})
          /\ rate \in [names -> Rates]
  /\ qualified_dir \in {<<"q">>, <<"q", "/">>}
  /\ ledgerFile = ConsolidatedLedger
  /\ ledgerWrites = 0 /\ ledgerReads = 0
  /\ metadata_df = <<>>
  /\ audiobooks = <<>> /\ processed = {}
  /\ convertCalls = {} /\ combineCalls = {}

\* process_audio_files is called on a raw root holding one book of up to
\* MaxLongParts parts, all with the same sample rate.
AudioLongInit ==
  /\ aPc = "start"
  /\ layout = "flat"
  /\ \E k \in 1..MaxLongParts, r \in {MIN_SAMPLE_RATE - 1, MIN_SAMPLE_RATE} :
       /\ disk = {FlatPath(<<"a">>, i) : i \in 1..k}
       /\ rate = [n \in {PartName(<<"a">>, i) : i \in 1..k} |-> r]
  /\ qualified_dir \in {<<"q">>, <<"q", "/">>}
  /\ ledgerFile = ConsolidatedLedger
  /\ ledgerWrites = 0 /\ ledgerReads = 0
  /\ metadata_df = <<>>
  /\ audiobooks = <<>> /\ processed = {}
  /\ convertCalls = {} /\ combineCalls = {}

\* os.listdir(d): the names directly under d.
ListDir(d) ==
  {SplitFirst(SubSeq(p, Len(d) + 2, Len(p)), "/") :
     p \in {x \in disk : StartsWith(x, d \o <<"/">>)}}

\* shutil.move(src, dst_dir) into an existing directory: src keeps its name.
MoveInto(files, src, dst) ==
  {IF p = src \/ StartsWith(p, src \o <<"/">>)
     THEN Join(dst, SplitLast(src, "/")) \o SubSeq(p, Len(src) + 1, Len(p))
     ELSE p : p \in files}

RECURSIVE MoveAllInto(_, _, _)
MoveAllInto(files, srcs, dst) ==
  IF srcs = {} THEN files
  ELSE LET s == CHOOSE x \in srcs : TRUE
       IN MoveAllInto(MoveInto(files, s, dst), srcs \ {s}, dst)

\* A reading that takes a part it cannot read for one that passes the gate.
get_sample_rate_lenient(path) ==
  LET name == SplitLast(path, "/")
  IN IF path \in disk /\ name \in DOMAIN rate /\ rate[name] # Unreadable
       THEN rate[name]
       ELSE MIN_SAMPLE_RATE

\* get_sample_rate: mp3.info.sample_rate, or 0 on any error.
get_sample_rate(path) ==
  LET name == SplitLast(path, "/")
  IN IF path \in disk /\ name \in DOMAIN rate /\ rate[name] # Unreadable
       THEN rate[name]
       ELSE 0

\* metadata_df = pd.read_csv(...); the sample_rate and qualified columns are reset.
ReadLedger ==
  /\ aPc = "start"
  /\ ledgerReads' = ledgerReads + 1
  /\ metadata_df' = [k \in DOMAIN ledgerFile |->
                       [ledgerFile[k] EXCEPT !.sample_rate = "None", !.qualified = 1]]
  /\ aPc' = "group"
  /\ UNCHANGED <<layout, disk, rate, ledgerFile, ledgerWrites, qualified_dir, audiobooks,
                 processed, convertCalls, combineCalls>>

\* group_audiobook: entries not ending in ".mp3" are moved to unqualified_dir,
\* the others are grouped by the text before the first "_" and each group sorted.
NotMp3Entries == {e \in ListDir(mp3_dir) : ~EndsWith(e, <<".", "m", "p", "3">>)}
Mp3Entries == ListDir(mp3_dir) \ NotMp3Entries
GroupKeys == {SplitFirst(e, "_") : e \in Mp3Entries}
GroupOf(k) == Sorted({Join(mp3_dir, e) : e \in {x \in Mp3Entries : SplitFirst(x, "_") = k}})

group_audiobook ==
  /\ aPc = "group"
  /\ disk' = MoveAllInto(disk, {Join(mp3_dir, e) : e \in NotMp3Entries}, unqualified_dir)
  /\ \E order \in [1..Cardinality(GroupKeys) -> GroupKeys] :
       /\ \A i, j \in DOMAIN order : i # j => order[i] # order[j]
       /\ audiobooks' = [i \in DOMAIN order |-> GroupOf(order[i])]
  /\ aPc' = IF GroupKeys = {} THEN "returned" ELSE "loop"
  /\ UNCHANGED <<layout, rate, ledgerFile, ledgerWrites, ledgerReads, metadata_df,
                 qualified_dir, processed, convertCalls, combineCalls>>

SampleRates(audiobook) == [i \in DOMAIN audiobook |-> get_sample_rate(audiobook[i])]

\* The quality gate: min(sample_rates) < constants.MIN_SAMPLE_RATE.
GateOnMax(audiobook) == SeqMax(SampleRates(audiobook)) < MIN_SAMPLE_RATE
Unqualified(audiobook) == SeqMin(SampleRates(audiobook)) < MIN_SAMPLE_RATE

\* metadata_df.loc[metadata_df["audio_url"].str.contains(pat), col] = val
LocSet(df, pat, col, val) ==
  [k \in DOMAIN df |->
     IF RegexContains(df[k].audio_url, pat)
       THEN IF col = "qualified" THEN [df[k] EXCEPT !.qualified = val]
            ELSE [df[k] EXCEPT !.sample_rate = val]
       ELSE df[k]]

RECURSIVE LocSetAll(_, _, _, _)
LocSetAll(df, pats, col, val) ==
  IF pats = <<>> THEN df
  ELSE LocSetAll(LocSet(df, Head(pats), col, val), Tail(pats), col, val)

\* The "if" branch of the loop body: every part is moved, the rows matching a
\* part's file name get qualified = 0.
DisqualifyGroup ==
  /\ aPc = "loop" /\ audiobooks # <<>>
  /\ LET audiobook == Head(audiobooks) IN
       /\ Unqualified(audiobook)
       /\ disk' = MoveAllInto(disk, Range(audiobook), unqualified_dir)
       /\ metadata_df' = LocSetAll(metadata_df,
                                   [i \in DOMAIN audiobook |-> SplitLast(audiobook[i], "/")],
                                   "qualified", 0)
       /\ processed' = processed \cup
            {[files |-> audiobook, rates |-> SampleRates(audiobook),
              branch |-> "unqualified", converted |-> {}, outcome |-> "none"]}
  /\ audiobooks' = Tail(audiobooks)
  /\ UNCHANGED <<aPc, layout, rate, ledgerFile, ledgerWrites, ledgerReads, qualified_dir,
                 convertCalls, combineCalls>>

\* A conversion written over the raw part itself.
WavPathInPlace(mp3_path) == mp3_path

\* wav_path = qualified_dir + mp3_filename.replace(".mp3", ".wav")
WavPath(mp3_path) ==
  qualified_dir \o Replace(SplitLast(mp3_path, "/"), <<".", "m", "p", "3">>,
                           <<".", "w", "a", "v">>)

\* os.path.join(qualified_dir, wav_paths[0].split("/")[-1].split("_")[0] + ".wav")
CombinedOutputPath(wav_paths) ==
  Join(qualified_dir,
       SplitFirst(SplitLast(wav_paths[1], "/"), "_") \o <<".", "w", "a", "v">>)

\* No input is removed.
KeepInputs(files, paths) == files

\* [os.remove(path) for path in input_paths]: stops at the first missing file.
RECURSIVE RemoveInOrder(_, _)
RemoveInOrder(files, paths) ==
  IF paths = <<>> \/ Head(paths) \notin files THEN files
  ELSE RemoveInOrder(files \ {Head(paths)}, Tail(paths))

\* combine_wav_files(output_path, input_paths) on the files at hand:
\* "no_ffmpeg" returns at once; otherwise the list file is written and ffmpeg
\* runs; on "ok" the output exists, the list file and the inputs are removed;
\* on "fail" the list file stays.
combine_wav_files(files, output_path, input_paths, outcome) ==
  LET list_file == Join(Dirname(output_path),
                        <<"i", "n", "p", "u", "t", "_", "l", "i", "s", "t", ".", "t", "x", "t">>)
  IN CASE outcome = "no_ffmpeg" -> files
       [] outcome = "fail" -> files \cup {list_file}
       [] OTHER -> RemoveInOrder(files \cup {output_path}, input_paths)

\* An "else" branch in which a failed conversion ends the run: the parts
\* after it are not converted and nothing is combined.
QualifyGroupAborting ==
  /\ aPc = "loop" /\ audiobooks # <<>>
  /\ LET audiobook == Head(audiobooks)
         wav_paths == [i \in DOMAIN audiobook |-> WavPath(audiobook[i])]
         mp3_filename == SplitLast(audiobook[Len(audiobook)], "/")
     IN
       /\ ~Unqualified(audiobook)
       /\ \E converted \in SUBSET Range(audiobook),
             outcome \in {"ok", "fail", "no_ffmpeg"} :
            /\ outcome = "no_ffmpeg" => converted = {}
            /\ outcome = "ok" => converted # {}
            /\ IF converted = Range(audiobook)
                 THEN /\ disk' = combine_wav_files(disk \cup {WavPath(p) : p \in converted},
                                                   CombinedOutputPath(wav_paths), wav_paths,
                                                   outcome)
                      /\ convertCalls' = convertCalls \cup Range(audiobook)
                      /\ combineCalls' = combineCalls \cup
                           {[output |-> CombinedOutputPath(wav_paths), inputs |-> wav_paths]}
                      /\ aPc' = aPc
                      /\ audiobooks' = Tail(audiobooks)
                 ELSE /\ disk' = disk \cup {WavPath(p) : p \in converted}
                      /\ convertCalls' = convertCalls \cup converted
                      /\ combineCalls' = combineCalls
                      /\ aPc' = "aborted"
                      /\ audiobooks' = audiobooks
            /\ processed' = processed \cup
                 {[files |-> audiobook, rates |-> SampleRates(audiobook),
                   branch |-> "qualified", converted |-> converted,
                   outcome |-> outcome]}
       /\ metadata_df' = LocSet(metadata_df, mp3_filename, "sample_rate",
                                Mean(SampleRates(audiobook)))
  /\ UNCHANGED <<layout, rate, ledgerFile, ledgerWrites, ledgerReads, qualified_dir>>

\* The "else" branch of the loop body: every part is converted, the results
\* are combined, the rows matching the last part's file name get the mean.
QualifyGroup ==
  /\ aPc = "loop" /\ audiobooks # <<>>
  /\ LET audiobook == Head(audiobooks)
         wav_paths == [i \in DOMAIN audiobook |-> WavPath(audiobook[i])]
         mp3_filename == SplitLast(audiobook[Len(audiobook)], "/")
     IN
       /\ ~Unqualified(audiobook)
       /\ \E converted \in SUBSET Range(audiobook),
             outcome \in {"ok", "fail", "no_ffmpeg"} :
            /\ outcome = "no_ffmpeg" => converted = {}
            /\ outcome = "ok" => converted # {}
            /\ disk' = combine_wav_files(disk \cup {WavPath(p) : p \in converted},
                                         CombinedOutputPath(wav_paths), wav_paths, outcome)
            /\ processed' = processed \cup
                 {[files |-> audiobook, rates |-> SampleRates(audiobook),
                   branch |-> "qualified", converted |-> converted,
                   outcome |-> outcome]}
       /\ convertCalls' = convertCalls \cup Range(audiobook)
       /\ combineCalls' = combineCalls \cup
            {[output |-> CombinedOutputPath(wav_paths), inputs |-> wav_paths]}
       /\ metadata_df' = LocSet(metadata_df, mp3_filename, "sample_rate",
                                Mean(SampleRates(audiobook)))
  /\ audiobooks' = Tail(audiobooks)
  /\ UNCHANGED <<aPc, layout, rate, ledgerFile, ledgerWrites, ledgerReads, qualified_dir>>

\* The loop is over: the summary is logged and the function returns.
FinishRun ==
  /\ aPc = "loop" /\ audiobooks = <<>>
  /\ aPc' = "done"
  /\ UNCHANGED <<layout, disk, rate, ledgerFile, ledgerWrites, ledgerReads, metadata_df,
                 qualified_dir, audiobooks, processed, convertCalls, combineCalls>>


\* ---- group_audiobook called twice in a row on the same raw root
GroupIdle ==
  /\ gPc = "idle" /\ firstGroups = {} /\ secondGroups = {} /\ secondMoved = {}

GroupInit ==
  /\ gPc = "first" /\ firstGroups = {} /\ secondGroups = {} /\ secondMoved = {}

\* What one call returns: the sorted groups.
GroupList == {GroupOf(k) : k \in GroupKeys}

\* The files after one call has moved the entries that are no mp3 file.
AfterGrouping ==
  MoveAllInto(disk, {Join(mp3_dir, e) : e \in NotMp3Entries}, unqualified_dir)

FirstGroupCall ==
  /\ gPc = "first"
  /\ firstGroups' = GroupList
  /\ disk' = AfterGrouping
  /\ gPc' = "second"
  /\ UNCHANGED <<secondGroups, secondMoved>>
  /\ UNCHANGED <<aPc, layout, rate, ledgerFile, ledgerWrites, ledgerReads, metadata_df,
                 qualified_dir, audiobooks, processed, convertCalls, combineCalls>>

SecondGroupCall ==
  /\ gPc = "second"
  /\ secondGroups' = GroupList
  /\ secondMoved' = NotMp3Entries
  /\ disk' = AfterGrouping
  /\ gPc' = "done"
  /\ UNCHANGED firstGroups
  /\ UNCHANGED <<aPc, layout, rate, ledgerFile, ledgerWrites, ledgerReads, metadata_df,
                 qualified_dir, audiobooks, processed, convertCalls, combineCalls>>

\* ======================================================================
\*  Specifications
\* ======================================================================

PoolFrame == UNCHANGED <<bookVars, audioVars, durVars, consVars, groupVars>>
BookFrame == UNCHANGED <<poolVars, audioVars, durVars, consVars, groupVars>>
AudioFrame == UNCHANGED <<poolVars, bookVars, durVars, consVars, groupVars>>
DurFrame == UNCHANGED <<poolVars, bookVars, audioVars, consVars, groupVars>>
ConsFrame == UNCHANGED <<poolVars, bookVars, audioVars, durVars, groupVars>>

\* The parts a specification leaves idle.
CrawlerIdle == PoolIdle /\ BookIdle
MetadataIdle == DurIdle /\ ConsIdle

InitPool == PoolInit /\ BookIdle /\ AudioIdle /\ MetadataIdle /\ GroupIdle

NextPool ==
  \/ \E u \in Units : Start(u) /\ PoolFrame
  \/ \E u \in Units : Wake(u) /\ PoolFrame
  \/ \E u \in Units : MetaFetchPages(u) /\ PoolFrame
  \/ \E u \in Units : MetaSave(u) /\ PoolFrame
  \/ \E u \in Units : DlResolve(u) /\ PoolFrame
  \/ \E u \in Units : DlGather(u) /\ PoolFrame
  \/ \E u \in Units : CancelUnit(u) /\ PoolFrame
  \/ (Consume /\ PoolFrame)
  \/ (ExternalCancel /\ PoolFrame)
  \/ (RunnerTeardown /\ PoolFrame)

SpecPool == InitPool /\ [][NextPool]_vars

InitBook == PoolIdle /\ BookInit /\ AudioIdle /\ MetadataIdle /\ GroupIdle

NextBook ==
  \/ (BookResolve /\ BookFrame)
  \/ \E i \in Fetches : FetchStart(i) /\ BookFrame
  \/ \E i \in Fetches : FetchProbe(i) /\ BookFrame
  \/ \E i \in Fetches : FetchFinish(i) /\ BookFrame
  \/ (BookGatherDone /\ BookFrame)
  \/ (BookCancel /\ BookFrame)
  \/ \E i \in Fetches : OrphanExit(i) /\ BookFrame

SpecBook == InitBook /\ [][NextBook]_vars

GroupFrame == UNCHANGED <<poolVars, bookVars, durVars, consVars>>

InitGroup == CrawlerIdle /\ AudioInit /\ MetadataIdle /\ GroupInit

NextGroup ==
  \/ (FirstGroupCall /\ GroupFrame)
  \/ (SecondGroupCall /\ GroupFrame)

SpecGroup == InitGroup /\ [][NextGroup]_vars

SlotFrame == UNCHANGED <<audioVars, durVars, consVars, groupVars>>

InitSlot == SlotInit /\ AudioIdle /\ MetadataIdle /\ GroupIdle

NextSlot ==
  \/ \E u \in Units : SlotStart(u) /\ SlotFrame
  \/ \E u \in Units : SlotWake(u) /\ SlotFrame
  \/ (SlotResolve /\ SlotFrame)
  \/ \E i \in Fetches : FetchStart(i) /\ UNCHANGED poolVars /\ SlotFrame
  \/ \E i \in Fetches : FetchProbe(i) /\ UNCHANGED poolVars /\ SlotFrame
  \/ \E i \in Fetches : FetchFinish(i) /\ UNCHANGED poolVars /\ SlotFrame
  \/ (SlotGather /\ SlotFrame)
  \/ \E u \in Units \ {1} : DlResolve(u) /\ UNCHANGED bookVars /\ SlotFrame
  \/ \E u \in Units \ {1} : DlGather(u) /\ UNCHANGED bookVars /\ SlotFrame
  \/ (Consume /\ UNCHANGED bookVars /\ SlotFrame)
  \/ (ExternalCancel /\ UNCHANGED bookVars /\ SlotFrame)
  \/ (SlotCancel /\ SlotFrame)
  \/ \E u \in Units \ {1} : CancelUnit(u) /\ UNCHANGED bookVars /\ SlotFrame
  \/ \E i \in Fetches : OrphanExit(i) /\ UNCHANGED poolVars /\ SlotFrame

SpecSlot == InitSlot /\ [][NextSlot]_vars

InitAudio == CrawlerIdle /\ AudioInit /\ MetadataIdle /\ GroupIdle

NextAudio ==
  \/ (ReadLedger /\ AudioFrame)
  \/ (group_audiobook /\ AudioFrame)
  \/ (DisqualifyGroup /\ AudioFrame)
  \/ (QualifyGroup /\ AudioFrame)
  \/ (FinishRun /\ AudioFrame)

SpecAudio == InitAudio /\ [][NextAudio]_vars

InitAudioLong == CrawlerIdle /\ AudioLongInit /\ MetadataIdle /\ GroupIdle

NextAudioLong ==
  \/ (ReadLedger /\ AudioFrame)
  \/ (group_audiobook /\ AudioFrame)
  \/ (DisqualifyGroup /\ AudioFrame)
  \/ (QualifyGroup /\ AudioFrame)
  \/ (FinishRun /\ AudioFrame)

SpecAudioLong == InitAudioLong /\ [][NextAudioLong]_vars

InitDuration == CrawlerIdle /\ AudioIdle /\ DurInit /\ ConsIdle /\ GroupIdle

NextDuration == Convert /\ DurFrame

SpecDuration == InitDuration /\ [][NextDuration]_vars

InitConsolidate == CrawlerIdle /\ AudioIdle /\ DurIdle /\ ConsInit /\ GroupIdle

NextConsolidate ==
  \/ (Glob /\ ConsFrame)
  \/ (ReadRecord /\ ConsFrame)
  \/ (WriteLedger /\ ConsFrame)

SpecConsolidate == InitConsolidate /\ [][NextConsolidate]_vars

InitRecords == CrawlerIdle /\ AudioIdle /\ DurIdle /\ RecordsInit /\ GroupIdle

NextRecords ==
  \/ \E u \in DOMAIN mBooks : ExtractUnit(u) /\ ConsFrame
  \/ (Rerun /\ ConsFrame)
  \/ (EndRuns /\ ConsFrame)
  \/ (Glob /\ ConsFrame)
  \/ (ReadRecord /\ ConsFrame)
  \/ (WriteLedger /\ ConsFrame)

SpecRecords == InitRecords /\ [][NextRecords]_vars

\* ======================================================================
\*  Properties
\* ======================================================================

\* C1: in every reachable state of a pool run, the number of units inside
\* the semaphore-guarded section is at most the limit N the semaphore was
\* constructed with.
C1_AtMostNInside == Cardinality(Inside) <= limit

\* C1 witness: the section is full and another unit waits for a slot.
C1_Witness ==
  /\ limit >= 1
  /\ Cardinality(Inside) = limit
  /\ \E u \in Units : pc[u] = "waiting"

\* C2: absent external cancellation, once the consuming loop has ended every
\* unit was started exactly once and the loop got exactly M results.
C2_AllResultsDelivered ==
  (cancelling # "external" /\ consumer # "running") =>
    /\ delivered = nUnits
    /\ \A u \in Units : started[u] = 1 /\ result[u] \notin {"none", "cancelled"}

\* C3: a unit's failure is kept as that unit's result: it never aborts the
\* consuming loop, and no sibling ends cancelled unless the user interrupted.
C3_FailureContained ==
  /\ consumer # "aborted"
  /\ cancelling # "external" => \A u \in Units : result[u] # "cancelled"

\* C4: once a cancelled per-book download unit has terminated, neither the
\* book's audio subdirectory nor its text file (whatever its extension) exists.
C4_NoPartialArtifacts ==
  (bPhase = "done" /\ bCancelled # "no") =>
    /\ ~audioDir
    /\ audioFiles = {}
    /\ textFiles = {}

\* C5: a unit cancelled while its fetches are in flight does not complete with
\* an ordinary return value: the cancellation reaches its caller.
C5_CancellationPropagated ==
  (bPhase = "done" /\ bCancelled = "fetching") => bResult = "CancelledError"

\* C6: the unit reports True only if every fetch passed its probe and its
\* download subprocess exited with status 0.
C6_TrueOnlyIfAllFetched ==
  bResult = "True" => \A i \in Fetches : fret[i] = "None" /\ frc[i] = 0

\* The rates stored in the parts of a processed group.
TrueRates(g) == [i \in DOMAIN g.files |-> rate[SplitLast(g.files[i], "/")]]

\* Where shutil.move puts a part in the unqualified root.
UnqualifiedPath(p) == Join(unqualified_dir, SplitLast(p, "/"))

RowsOf(g) ==
  {k \in DOMAIN metadata_df :
     metadata_df[k].book = SplitFirst(SplitLast(g.files[1], "/"), "_")}

\* C8: at the end of a run the row of every disqualified book has
\* qualified = 0, the row of every qualified book has qualified = 1 and
\* sample_rate = mean of its parts' rates.
C8_LedgerMatchesGate ==
  aPc = "done" =>
    \A g \in processed : \A k \in RowsOf(g) :
      IF SeqMin(TrueRates(g)) < MIN_SAMPLE_RATE
        THEN metadata_df[k].qualified = 0
        ELSE /\ metadata_df[k].qualified = 1
             /\ metadata_df[k].sample_rate = Mean(TrueRates(g))

\* C9: a finished run has read the ledger file once and rewritten it exactly
\* once, and the file holds the values set during the run.
C9_LedgerRewrittenOnce ==
  aPc = "done" =>
    /\ ledgerReads = 1
    /\ ledgerWrites = 1
    /\ ledgerFile = metadata_df

\* The parts the downloader stored for book b.
PartsOf(b) == {n \in DOMAIN rate : SplitFirst(n, "_") = b}

\* C10: on a raw root in the downloader's layout, after the run the qualified
\* root holds the combined file of every book whose parts all meet the
\* threshold.
C10_DownloaderLayoutQualifies ==
  (layout = "downloader" /\ aPc \in {"done", "returned"}) =>
    \A b \in Books :
      (PartsOf(b) # {} /\ \A n \in PartsOf(b) : rate[n] >= MIN_SAMPLE_RATE) =>
        Join(<<"q">>, b \o <<".", "w", "a", "v">>) \in disk

\* The 1-based sequence index the downloader put in a part's file name.
PartIndex(path) ==
  LET name == SplitLast(path, "/")
  IN ParseNat(SubSeq(name, LastIndex(name, "_") + 1, LastIndex(name, ".") - 1))

\* C11: the inputs handed to concatenation are in ascending integer
\* sequence-index order, for groups of any size.
C11_ConcatInIndexOrder ==
  \A c \in combineCalls :
    \A i, j \in DOMAIN c.inputs :
      i < j => PartIndex(c.inputs[i]) < PartIndex(c.inputs[j])

\* The base-60 value of a list of integers, the first one most significant.
RECURSIVE Base60(_)
Base60(ints) ==
  IF ints = <<>> THEN 0
  ELSE Base60(SubSeq(ints, 1, Len(ints) - 1)) * 60 + ints[Len(ints)]

\* C13: with unit "second", convert_duration returns the base-60 sum of the
\* integer components, the first one most significant, and returns None for
\* an argument that is not a string or has a component that is no integer.
C13_DurationInSeconds ==
  (dPc = "done" /\ unit = "second") =>
    IF time_str.kind = "str" /\ \A i \in DOMAIN dComps : ~dComps[i].bad
      THEN dResult = IntValue(Base60([i \in DOMAIN dComps |-> dComps[i].int]))
      ELSE dResult = None

\* "1:02:03" was converted to 3723 seconds.
C13_Witness ==
  /\ dPc = "done" /\ unit = "second"
  /\ time_str = StrValue(<<"1", ":", "0", "2", ":", "0", "3">>)
  /\ dResult = IntValue(3723)

\* The record files that parse as JSON.
Parseable == {f \in DOMAIN recordFiles : recordFiles[f].kind = "book"}

IsTvShow(audio_url) == RegexContains(audio_url, <<"t", "v", "s", "h", "o", "w", "s">>)

\* Number of rows of the ledger that come from record file f.
RowsFrom(f) ==
  Cardinality({i \in DOMAIN csvFile : csvFile[i].text_url = recordFiles[f].text_url})

\* C12: after consolidation the ledger has no TV-show row and exactly one
\* row for every other parseable record.
C12_TvShowsDropped ==
  cPc = "done" =>
    /\ \A i \in DOMAIN csvFile : ~IsTvShow(csvFile[i].audio_url)
    /\ \A f \in Parseable :
         RowsFrom(f) = IF IsTvShow(recordFiles[f].audio_url) THEN 0 ELSE 1
    /\ Len(csvFile)
         = Cardinality({f \in Parseable : ~IsTvShow(recordFiles[f].audio_url)})

Identities == {TextUrl(mBooks[u]) : u \in {v \in DOMAIN mBooks : mOk[v]}}

FetchFileOnDisk(i) == IF i = 0 THEN SaveExt(bExt) \in textFiles ELSE i \in audioFiles

\* C14: a fetch whose probe failed was probed once and never started its
\* subprocess, and the other fetches of the book still ran their own probe
\* and, when it passed, their download.
C14_FailedProbeNoDownload ==
  \A i \in Fetches :
    /\ probes[i] <= 1
    /\ fret[i] = "False" =>
         /\ probes[i] = 1 /\ fpc[i] = "done" /\ frc[i] = -1
         /\ ~FetchFileOnDisk(i)
    /\ (bPhase = "done" /\ bResult = "True") =>
         /\ probes[i] = 1
         /\ fret[i] = "False" \/ (fret[i] = "None" /\ frc[i] \in {0, 1})

\* A book with two parts ended with the probe of part 1 failed and the text
\* and part 2 downloaded.
C14_Witness ==
  /\ bPhase = "done" /\ bResult = "True" /\ bK = 2
  /\ fret[1] = "False" /\ frc[1] = -1
  /\ fret[0] = "None" /\ frc[0] = 0
  /\ fret[2] = "None" /\ frc[2] = 0

\* C16: a metadata unit whose page could not be reached (HTTP error status
\* or connection failure) ends with "no record", writes no record file and
\* gives its slot back, and the consuming loop goes on.
C16_UnreachablePageSkipped ==
  cancelling = "no" =>
    /\ \A u \in unreached :
         pc[u] = "done" /\ result[u] = "None" /\ u \notin saved
    /\ semaphore = limit - Cardinality(Inside)
    /\ (\A u \in Units : result[u] \in {"none", "None", "Book"})
         => consumer # "aborted"

\* C15: a book holds exactly one slot from the start of its link resolution
\* until its fetches are over, the fetches hold none of their own, and no
\* fetch of the book is in flight once its slot is released.
C15_OneSlotPerBook ==
  /\ semaphore = limit - Cardinality(Inside)
  /\ bPhase \in {"resolving", "fetching"} <=> 1 \in Inside
  /\ \A i \in Fetches : InFlight(i) => 1 \in Inside

\* The same, for the coroutines alone: a subprocess left behind by a
\* cancellation is not counted.
OneSlotPerBookCoroutines ==
  /\ semaphore = limit - Cardinality(Inside)
  /\ bPhase \in {"resolving", "fetching"} <=> 1 \in Inside
  /\ \A i \in Fetches : (InFlight(i) /\ fpc[i] # "orphaned") => 1 \in Inside

\* C19: a second call of group_audiobook on the directory the first call
\* left returns the same groups, each in the same file order, and relocates
\* nothing.
C19_GroupingIdempotent ==
  gPc = "done" =>
    /\ secondGroups = firstGroups
    /\ secondMoved = {}
    /\ AfterGrouping = disk

\* The first call moved a stray file and returned a group of two parts; the
\* second call has returned.
C19_Witness ==
  /\ gPc = "done"
  /\ <<"u", "/", "x", ".", "t", "x", "t">> \in disk
  /\ \E g \in firstGroups : Len(g) = 2
  /\ secondGroups = firstGroups

\* The qualified root as a directory name.
QualifiedRoot ==
  IF EndsWith(qualified_dir, <<"/">>)
    THEN SubSeq(qualified_dir, 1, Len(qualified_dir) - 1)
    ELSE qualified_dir

\* The files process_audio_files makes for a qualifying group.
WavsOf(g) == [i \in DOMAIN g.files |-> WavPath(g.files[i])]

\* C20: once a qualifying group is processed with every conversion and the
\* concatenation succeeding, the qualified root holds the group's combined
\* file and none of its per-part converted files; without a successful
\* concatenation the converted per-part files are all still there.
C20_OnlyCombinedFileLeft ==
  \A g \in processed :
    g.branch = "qualified" =>
      /\ (g.outcome = "ok" /\ g.converted = Range(g.files)) =>
           /\ CombinedOutputPath(WavsOf(g)) \in disk
           /\ {p \in disk : /\ Dirname(p) = QualifiedRoot
                             /\ p \in Range(WavsOf(g)) \cup {CombinedOutputPath(WavsOf(g))}}
                = {CombinedOutputPath(WavsOf(g))}
           /\ \A i \in DOMAIN g.files : WavsOf(g)[i] \notin disk
      /\ g.outcome # "ok" => \A p \in g.converted : WavPath(p) \in disk

\* A group of two parts was converted and combined.
C20_Witness ==
  \E g \in processed :
    /\ g.branch = "qualified" /\ Len(g.files) = 2
    /\ g.outcome = "ok" /\ g.converted = Range(g.files)
    /\ CombinedOutputPath(WavsOf(g)) \in disk

\* C21: in a qualifying group a failed conversion stops nothing: every part
\* of the group is handed to the conversion, the concatenation is called with
\* the group's whole list, and the run goes on to its end over all groups.
C21_ConversionFailureContained ==
  /\ aPc # "aborted"
  /\ \A g \in processed :
       g.branch = "qualified" =>
         /\ Range(g.files) \subseteq convertCalls
         /\ [output |-> CombinedOutputPath(WavsOf(g)), inputs |-> WavsOf(g)]
              \in combineCalls
  /\ (aPc = "done" /\ layout = "flat") =>
       \A n \in DOMAIN rate :
         \E g \in processed : Join(mp3_dir, n) \in Range(g.files)

\* A run over two groups ended; in a qualifying group of two parts one
\* conversion had failed.
C21_Witness ==
  /\ aPc = "done"
  /\ Cardinality(processed) = 2
  /\ \E g \in processed :
       /\ g.branch = "qualified" /\ Len(g.files) = 2
       /\ Cardinality(g.converted) = 1
       /\ \E c \in combineCalls : c.inputs = WavsOf(g)

\* C22: slots are conserved: in every state the free slots and the slots
\* held by the units inside the guarded section add up to N, never more and
\* never fewer, and once every unit has ended all N slots are free.
C22_SlotsConserved ==
  /\ semaphore \in 0..limit
  /\ semaphore + Cardinality(Inside) = limit
  /\ (\A u \in Units : pc[u] = "done") => semaphore = limit

\* Three units have ended, one with a record, one by raising and one by
\* cancellation, and every slot is free again.
C22_Witness ==
  /\ nUnits = 3 /\ limit = 2
  /\ \A u \in Units : pc[u] = "done"
  /\ \E u \in Units : result[u] = "raised"
  /\ \E u \in Units : result[u] = "cancelled" /\ started[u] = 1
  /\ \E u \in Units : result[u] = "Book"
  /\ semaphore = limit

\* The parts of a group whose header cannot be read.
UnreadableParts(g) ==
  {i \in DOMAIN g.files : rate[SplitLast(g.files[i], "/")] = Unreadable}

RawRoot == {p \in disk : StartsWith(p, mp3_dir \o <<"/">>)}

\* The parts of the groups that took the given branch.
PartsOfBranch(br) == UNION {Range(g.files) : g \in {x \in processed : x.branch = br}}

\* C24: the parts of a qualifying group stay where they are in the raw root,
\* the parts of a disqualified group are gone from it, and after a run the
\* raw root holds exactly the parts of the qualified groups.
C24_RawRootFrame ==
  /\ \A p \in PartsOfBranch("qualified") : p \in RawRoot
  /\ \A p \in PartsOfBranch("unqualified") : p \notin disk
  /\ aPc \in {"done", "returned"} => RawRoot = PartsOfBranch("qualified")

\* A run ended with one group of two parts converted and combined and
\* another group disqualified.
C24_Witness ==
  /\ aPc = "done"
  /\ PartsOfBranch("unqualified") # {}
  /\ \E g \in processed :
       /\ g.branch = "qualified" /\ Len(g.files) = 2
       /\ g.outcome = "ok" /\ g.converted = Range(g.files)
       /\ RawRoot = Range(g.files)

====
